---- MODULE Spec2Model ----
(***************************************************************************)
(* RPyPCA9685: the PCA9685 driver class of src/src/RPyPCA9685.py as a      *)
(* state machine over the chip's register file and the I2C bus traffic.    *)
(*                                                                         *)
(* The chip and the quick2wire I2CMaster are the environment: the chip is  *)
(* a file of 256 byte registers, a bus transaction is a sequence of write  *)
(* and read messages that either completes or raises (a transport error).  *)
(***************************************************************************)
EXTENDS Integers, Sequences, FiniteSets, TLC

VARIABLES
    regs,    \* the chip's registers, [RegisterAddresses -> 0..255]
    chip,    \* how the chip treats the all_* registers: "store" | "broadcast"
    self,    \* the PCA9685 instance: [state, ADDRESS, master]
    last,    \* the last call made: its name, arguments, outcome and bus log
    memo,    \* the first successful set_position call of this instance
    arg,     \* the arguments drawn for the single-call specifications
    rmw      \* two callers of _setBit / _clearBit on one register, step by step

vars == <<regs, chip, self, last, memo, arg, rmw>>

(***************************************************************************)
(* Bounds of the model.                                                    *)
(***************************************************************************)
\* Channel arguments range over -ChanSlack .. 15 + ChanSlack.
ChanSlack == 2
\* Position arguments range over -PosSlack .. 3000 + PosSlack.
PosSlack == 2
\* getByte is applied to every value of 0 .. MaxSmallValue (and to the
\* values of BigValues).
MaxSmallValue == 300

(***************************************************************************)
(* Module-level helper functions (lines 19-59).                            *)
(***************************************************************************)
RECURSIVE Pow2(_)
Pow2(n) == IF n = 0 THEN 1 ELSE 2 * Pow2(n - 1)

\* Bit `offset` of the two's-complement integer int_type (Python's unbounded
\* ints: \div floors, so this is right for negative values too).
BitOf(int_type, offset) == (int_type \div Pow2(offset)) % 2

\* int_type & (1 << offset): the mask's value when the bit is set, else 0.
testBit(int_type, offset) == BitOf(int_type, offset) * Pow2(offset)

\* Mutant of _setBit: the mask assigned instead of or-ed.
_setBit_maskOnly(int_type, offset) == Pow2(offset)

\* Mutant of _setBit: the mask added instead of or-ed.
_setBit_added(int_type, offset) == int_type + Pow2(offset)

\* int_type | (1 << offset)
_setBit(int_type, offset) ==
    IF BitOf(int_type, offset) = 1 THEN int_type ELSE int_type + Pow2(offset)

\* Mutant of _clearBit: the mask is not inverted.
_clearBit_noInvert(int_type, offset) ==
    IF BitOf(int_type, offset) = 1 THEN Pow2(offset) ELSE 0

\* int_type & ~(1 << offset)
_clearBit(int_type, offset) ==
    IF BitOf(int_type, offset) = 1 THEN int_type - Pow2(offset) ELSE int_type

\* Mutant of getByte: the shift without the mask.
getByte_noMask(int_type, nth_byte) == int_type \div Pow2(8 * nth_byte)

\* (int_type >> (8 * nth_byte)) & 0xff
getByte(int_type, nth_byte) == (int_type \div Pow2(8 * nth_byte)) % 256

\* Python's int() of a quotient num/den (den > 0): truncation toward zero.
IntTrunc(num, den) ==
    IF num >= 0 THEN num \div den ELSE 0 - ((0 - num) \div den)

(***************************************************************************)
(* Class constants and tables (lines 68-114).                              *)
(***************************************************************************)
_PRESCALE == 121
_PULSE_START == 100
_PULSE_END_LOW == 305
_PULSE_END_HIGH == 509

REGISTERS ==
    [mode1 |-> 0, mode2 |-> 1, subadr1 |-> 2, subadr2 |-> 3, subadr3 |-> 4,
     allcalladr |-> 5, all_on_low |-> 250, all_on_high |-> 251,
     all_off_low |-> 252, all_off_high |-> 253, pre_scale |-> 254,
     testmode |-> 255]

MODE1_BITS ==
    [allcall |-> 0, sub3 |-> 1, sub2 |-> 2, sub1 |-> 3, sleep |-> 4,
     ai |-> 5, extclk |-> 6, restart |-> 7]

MODE2_BITS ==
    [oe0 |-> 0, oe1 |-> 1, outdrv |-> 2, och |-> 3, invrt |-> 4]

(***************************************************************************)
(* Channel addressing (lines 116-154).  A lookup returns the register      *)
(* address (ret), or raises what _valid_servo raises (result).             *)
(***************************************************************************)
InvalidChannel == "servo_id must be in the range [0 .. 15]"

InvalidPosition == "position must be in the range [0 .. 3000]"

\* Mutant of _valid_servo: the upper limit off by one.
_valid_servo_upTo16(servo_id) == servo_id >= 0 /\ servo_id <= 16

\* TRUE when _valid_servo returns, FALSE when it raises.
_valid_servo(servo_id) == servo_id >= 0 /\ servo_id <= 15

Returned(value) == [result |-> "ok", ret |-> value]

Raised(what) == [result |-> what, ret |-> 0]

SERVO_ON_LOW(servo_id) ==
    IF _valid_servo(servo_id) THEN Returned(6 + 4 * servo_id) ELSE Raised(InvalidChannel)

SERVO_ON_HIGH(servo_id) ==
    IF _valid_servo(servo_id) THEN Returned(7 + 4 * servo_id) ELSE Raised(InvalidChannel)

SERVO_OFF_LOW(servo_id) ==
    IF _valid_servo(servo_id) THEN Returned(8 + 4 * servo_id) ELSE Raised(InvalidChannel)

SERVO_OFF_HIGH(servo_id) ==
    IF _valid_servo(servo_id) THEN Returned(9 + 4 * servo_id) ELSE Raised(InvalidChannel)

(***************************************************************************)
(* The I2C bus and the chip (the environment of lines 166, 200 and 203).   *)
(*                                                                         *)
(* A message is what quick2wire's writing_bytes / reading build.  An event *)
(* of the bus log is a transaction (its messages, whether it completed,    *)
(* the bytes it read), a delay (time.sleep) or the release of the master.  *)
(***************************************************************************)
writing_bytes(addr, bytes) == [rw |-> "w", addr |-> addr, bytes |-> bytes, len |-> Len(bytes)]

reading(addr, n) == [rw |-> "r", addr |-> addr, bytes |-> <<>>, len |-> n]

TxEvent(msgs, ok, data) == [kind |-> "tx", msgs |-> msgs, ok |-> ok, data |-> data, ms |-> 0]

DelayEvent(ms) == [kind |-> "delay", msgs |-> <<>>, ok |-> TRUE, data |-> <<>>, ms |-> ms]

CloseEvent == [kind |-> "close", msgs |-> <<>>, ok |-> TRUE, data |-> <<>>, ms |-> 0]

\* The registers of the chip: mode and address registers, four per channel,
\* the all_* registers, pre_scale and testmode.
RegisterAddresses == (0..69) \cup (250..255)

\* The chip stores a byte written to a register.  A "broadcast" chip also
\* loads a byte written to all_on_low .. all_off_high into that register of
\* every channel (the PCA9685's ALL_LED registers); a "store" chip does not.
ChipWrite(kind, r, reg, val) ==
    IF kind = "broadcast" /\ reg >= REGISTERS.all_on_low /\ reg <= REGISTERS.all_off_high
    THEN [a \in DOMAIN r |->
            IF a = reg \/ (a >= 6 /\ a <= 69 /\ (a - 6) % 4 = reg - REGISTERS.all_on_low)
            THEN val ELSE r[a]]
    ELSE [r EXCEPT ![reg] = val]

\* The chip's answer to the messages of a transaction, from message i on: a
\* write message sets the register pointer with its first byte and stores
\* its second byte, if any; a read message returns the register the pointer
\* names.
RECURSIVE ChipRun(_, _, _, _, _, _)
ChipRun(kind, r, ptr, msgs, i, data) ==
    IF i > Len(msgs) THEN [regs |-> r, data |-> data]
    ELSE LET m == msgs[i] IN
         IF m.rw = "w"
         THEN ChipRun(kind,
                      IF m.len >= 2 THEN ChipWrite(kind, r, m.bytes[1], m.bytes[2]) ELSE r,
                      m.bytes[1], msgs, i + 1, data)
         ELSE ChipRun(kind, r, ptr, msgs, i + 1, Append(data, r[ptr]))

\* The bus as a call sees it: the chip, the failure plan (the number of the
\* transaction of the call that raises, leaving the chip as it was; 0 when
\* the transport serves the whole call), the call's log so far, the number
\* of transactions it attempted, whether an exception is propagating, and
\* the value the last read returned.
Bus0(kind, r, addr, fail) ==
    [chip |-> kind, regs |-> r, addr |-> addr, fail |-> fail,
     log |-> <<>>, n |-> 0, err |-> FALSE, ret |-> 0]

\* Mutant of transaction: the exception is noted and the call goes on to
\* its next transactions.
transaction_keepsGoing(b, msgs) ==
    IF b.n + 1 = b.fail
    THEN [b EXCEPT !.n = @ + 1, !.err = TRUE,
                   !.log = Append(@, TxEvent(msgs, FALSE, <<>>))]
    ELSE LET out == ChipRun(b.chip, b.regs, 0, msgs, 1, <<>>)
         IN [b EXCEPT !.n = @ + 1, !.regs = out.regs,
                      !.ret = IF out.data = <<>> THEN @ ELSE out.data[1],
                      !.log = Append(@, TxEvent(msgs, TRUE, out.data))]

\* self.master.transaction(*msgs): nothing runs once an exception propagates;
\* the planned transaction raises; any other completes.
transaction(b, msgs) ==
    IF b.err THEN b
    ELSE IF b.n + 1 = b.fail
    THEN [b EXCEPT !.n = @ + 1, !.err = TRUE,
                   !.log = Append(@, TxEvent(msgs, FALSE, <<>>))]
    ELSE LET out == ChipRun(b.chip, b.regs, 0, msgs, 1, <<>>)
         IN [b EXCEPT !.n = @ + 1, !.regs = out.regs,
                      !.ret = IF out.data = <<>> THEN @ ELSE out.data[1],
                      !.log = Append(@, TxEvent(msgs, TRUE, out.data))]

\* time.sleep(seconds), in milliseconds.
sleep(b, ms) == IF b.err THEN b ELSE [b EXCEPT !.log = Append(@, DelayEvent(ms))]

(***************************************************************************)
(* Register access primitives (lines 199-215).                             *)
(***************************************************************************)
self_setRegister(b, register, value) ==
    transaction(b, <<writing_bytes(b.addr, <<register, getByte(value, 0)>>)>>)

\* The value read is b.ret of the result.
self_getRegister(b, register) ==
    transaction(b, <<writing_bytes(b.addr, <<register>>), reading(b.addr, 1)>>)

self_setBit(b, register, bit) ==
    LET b1 == self_getRegister(b, register)
    IN self_setRegister(b1, register, _setBit(b1.ret, bit))

self_clearBit(b, register, bit) ==
    LET b1 == self_getRegister(b, register)
    IN self_setRegister(b1, register, _clearBit(b1.ret, bit))

(***************************************************************************)
(* Position control (lines 156-166).                                       *)
(***************************************************************************)
\* Mutant of PositionOK: both limits inclusive.
PositionOK_inclusive(position) == position >= 0 /\ position <= 3000

\* Line 163: the position test that guards the raise of line 164.
PositionOK(position) == position > 0 /\ position < 3000

\* Mutant of PositionValue: the span is added to _PULSE_END_HIGH.
PositionValue_fromHigh(position) ==
    IntTrunc((position - 1000) * (_PULSE_END_HIGH - _PULSE_END_LOW)
                 + _PULSE_END_HIGH * (2000 - 1000),
             2000 - 1000)

\* Mutant of PositionValue: round() in place of int().
PositionValue_rounded(position) ==
    (2 * ((position - 1000) * (_PULSE_END_HIGH - _PULSE_END_LOW)
              + _PULSE_END_LOW * (2000 - 1000)) + (2000 - 1000))
        \div (2 * (2000 - 1000))

\* Mutant of PositionValue: the value clamped to [LOW, HIGH].
PositionValue_clamped(position) ==
    LET v == IntTrunc((position - 1000) * (_PULSE_END_HIGH - _PULSE_END_LOW)
                          + _PULSE_END_LOW * (2000 - 1000),
                      2000 - 1000)
    IN IF v < _PULSE_END_LOW THEN _PULSE_END_LOW
       ELSE IF v > _PULSE_END_HIGH THEN _PULSE_END_HIGH ELSE v

\* Line 165: int((position - 1000) / (2000 - 1000) * (HIGH - LOW) + LOW).
\* The float expression is the exact quotient below up to an error far
\* smaller than its distance (>= 1/250, or 0) from the next integer.
PositionValue(position) ==
    IntTrunc((position - 1000) * (_PULSE_END_HIGH - _PULSE_END_LOW)
                 + _PULSE_END_LOW * (2000 - 1000),
             2000 - 1000)

\* Mutant of PositionMessages: one message, both bytes after the address.
PositionMessages_burst(addr, servo_id, value) ==
    <<writing_bytes(addr, <<SERVO_OFF_LOW(servo_id).ret, getByte(value, 0), getByte(value, 1)>>)>>

\* Mutant of PositionMessages: the on registers in place of the off ones.
PositionMessages_onRegisters(addr, servo_id, value) ==
    <<writing_bytes(addr, <<SERVO_ON_LOW(servo_id).ret, getByte(value, 0)>>),
      writing_bytes(addr, <<SERVO_ON_HIGH(servo_id).ret, getByte(value, 1)>>)>>

\* Line 166: the messages handed to the one call of master.transaction.
PositionMessages(addr, servo_id, value) ==
    <<writing_bytes(addr, <<SERVO_OFF_LOW(servo_id).ret, getByte(value, 0)>>),
      writing_bytes(addr, <<SERVO_OFF_HIGH(servo_id).ret, getByte(value, 1)>>)>>

\* Mutant of set_position: no bus traffic when the chip, as last read by the
\* driver, already holds the bytes.
set_position_cached(b, servo_id, position) ==
    IF ~_valid_servo(servo_id) THEN [bus |-> b, result |-> InvalidChannel]
    ELSE IF ~(position > 0 /\ position < 3000) THEN [bus |-> b, result |-> InvalidPosition]
    ELSE LET value == IntTrunc((position - 1000) * (_PULSE_END_HIGH - _PULSE_END_LOW)
                                   + _PULSE_END_LOW * (2000 - 1000),
                               2000 - 1000)
             b1 == transaction(b,
                     <<writing_bytes(b.addr, <<8 + 4 * servo_id, getByte(value, 0)>>),
                       writing_bytes(b.addr, <<9 + 4 * servo_id, getByte(value, 1)>>)>>)
         IN IF /\ b.regs[8 + 4 * servo_id] = getByte(value, 0)
               /\ b.regs[9 + 4 * servo_id] = getByte(value, 1)
            THEN [bus |-> b, result |-> "ok"]
            ELSE [bus |-> b1, result |-> IF b1.err THEN "TransportError" ELSE "ok"]

\* The call: the bus after it and how it ended.
set_position(b, servo_id, position) ==
    IF ~_valid_servo(servo_id) THEN [bus |-> b, result |-> InvalidChannel]
    ELSE IF ~PositionOK(position) THEN [bus |-> b, result |-> InvalidPosition]
    ELSE LET b1 == transaction(b, PositionMessages(b.addr, servo_id, PositionValue(position)))
         IN [bus |-> b1, result |-> IF b1.err THEN "TransportError" ELSE "ok"]

(***************************************************************************)
(* Lifecycle (lines 168-197).                                              *)
(***************************************************************************)
\* Line 183: center = int((HIGH + LOW) / 2.0)
\* Mutant of center: only _PULSE_END_LOW is halved.
center_lowHalved == _PULSE_END_HIGH + IntTrunc(_PULSE_END_LOW, 2)

center == IntTrunc(_PULSE_END_HIGH + _PULSE_END_LOW, 2)

\* Mutant of __init__: the chip is woken before it is configured.
__init___wakeFirst(b) ==
    LET b1 == self_clearBit(b, REGISTERS.mode1, MODE1_BITS.sleep)
        b2 == sleep(b1, 100)
        b3 == self_setRegister(b2, REGISTERS.pre_scale, _PRESCALE)
        b4 == self_clearBit(b3, REGISTERS.mode1, MODE1_BITS.allcall)
        b5 == self_setRegister(b4, REGISTERS.all_on_low, getByte(_PULSE_START, 0))
        b6 == self_setRegister(b5, REGISTERS.all_on_high, getByte(_PULSE_START, 1))
        b7 == self_setRegister(b6, REGISTERS.all_off_low, getByte(407, 0))
        b8 == self_setRegister(b7, REGISTERS.all_off_high, getByte(407, 1))
        b9 == self_setBit(b8, REGISTERS.mode1, MODE1_BITS.restart)
    IN sleep(b9, 100)

\* Lines 179-189, after self.master and self.ADDRESS are set.
__init__(b) ==
    LET b1 == self_setRegister(b, REGISTERS.pre_scale, _PRESCALE)
        b2 == self_clearBit(b1, REGISTERS.mode1, MODE1_BITS.allcall)
        b3 == self_setRegister(b2, REGISTERS.all_on_low, getByte(_PULSE_START, 0))
        b4 == self_setRegister(b3, REGISTERS.all_on_high, getByte(_PULSE_START, 1))
        b5 == self_setRegister(b4, REGISTERS.all_off_low, getByte(center, 0))
        b6 == self_setRegister(b5, REGISTERS.all_off_high, getByte(center, 1))
        b7 == self_clearBit(b6, REGISTERS.mode1, MODE1_BITS.sleep)
        b8 == sleep(b7, 100)
        b9 == self_setBit(b8, REGISTERS.mode1, MODE1_BITS.restart)
    IN sleep(b9, 100)

\* Mutant of __del__: the master is closed and the chip left awake.
__del___noSleep(b) == [b EXCEPT !.log = Append(@, CloseEvent)]

\* Mutant of __del__: the sleep bit is written without reading mode1.
__del___blindWrite(b) ==
    LET b1 == self_setRegister(b, REGISTERS.mode1, 16)
    IN IF b1.err THEN b1 ELSE [b1 EXCEPT !.log = Append(@, CloseEvent)]

\* Lines 196-197, on an instance whose master is set: master.close() runs
\* only when _setBit returned.
__del__(b) ==
    LET b1 == self_setBit(b, REGISTERS.mode1, MODE1_BITS.sleep)
    IN IF b1.err THEN b1 ELSE [b1 EXCEPT !.log = Append(@, CloseEvent)]

(***************************************************************************)
(* Inputs of the lifecycle specification.                                   *)
(***************************************************************************)
\* mode1 as the chip holds it before the first open: the power-on value
\* (sleep and allcall set), all clear, all set.
Mode1Init == {17, 0, 255}

ChipKinds == {"store", "broadcast"}

Addresses == {64}

Channels == {-1, 0, 15, 16}

Positions == {0, 1, 1500, 2999, 3000}

\* The failure plans of a call that issues `ntx` transactions.
FailPlans(ntx) == 0..ntx

NoMemo == [args |-> <<>>, log |-> <<>>]

NoCall == [op |-> "none", args |-> <<>>, result |-> "ok", ret |-> 0, log |-> <<>>]

NoInstance == [state |-> "none", ADDRESS |-> -1, master |-> "unset"]

\* No caller is inside _setBit / _clearBit.
NoCallers == <<>>

(***************************************************************************)
(* Actions.                                                                *)
(***************************************************************************)
\* PCA9685(controller, address): I2CMaster(controller) raises for a bad
\* controller (line 177), before ADDRESS is set and before any bus traffic.
Open(ctrlOk, address, fail) ==
    /\ self.state \in {"none", "dead"}
    /\ LET b == __init__(Bus0(chip, regs, address, fail))
       IN IF ctrlOk
          THEN /\ regs' = b.regs
               /\ self' = [state |-> IF b.err THEN "failed" ELSE "open",
                           ADDRESS |-> address, master |-> "open"]
               /\ last' = [op |-> "open", args |-> <<address>>,
                           result |-> IF b.err THEN "TransportError" ELSE "ok",
                           ret |-> 0, log |-> b.log]
          ELSE /\ regs' = regs
               /\ self' = [state |-> "failed", ADDRESS |-> -1, master |-> "unset"]
               /\ last' = [op |-> "open", args |-> <<address>>,
                           result |-> "ControllerError", ret |-> 0, log |-> <<>>]
    /\ memo' = NoMemo
    /\ UNCHANGED <<chip, arg, rmw>>

\* set_position(servo_id, position) on the instance open returned.
SetPosition(servo_id, position, fail) ==
    /\ self.state = "open"
    /\ LET r == set_position(Bus0(chip, regs, self.ADDRESS, fail), servo_id, position)
       IN /\ regs' = r.bus.regs
          /\ last' = [op |-> "set_position", args |-> <<servo_id, position>>,
                      result |-> r.result, ret |-> 0, log |-> r.bus.log]
          /\ memo' = IF memo = NoMemo /\ r.result = "ok"
                     THEN [args |-> <<servo_id, position>>, log |-> r.bus.log]
                     ELSE memo
    /\ UNCHANGED <<chip, self, arg, rmw>>

\* __del__: the finalizer of an instance, also of one whose __init__ raised.
\* An exception it raises is ignored; without self.master the first
\* attribute access raises and no bus traffic happens.
Del(fail) ==
    /\ self.state \in {"open", "failed"}
    /\ IF self.master = "unset"
       THEN /\ regs' = regs
            /\ self' = [self EXCEPT !.state = "dead"]
            /\ last' = [op |-> "del", args |-> <<>>, result |-> "AttributeError", ret |-> 0, log |-> <<>>]
       ELSE LET b == __del__(Bus0(chip, regs, self.ADDRESS, fail))
            IN /\ regs' = b.regs
               /\ self' = [self EXCEPT !.state = "dead",
                                       !.master = IF b.err THEN @ ELSE "closed"]
               /\ last' = [op |-> "del", args |-> <<>>,
                           result |-> IF b.err THEN "TransportError" ELSE "ok",
                           ret |-> 0, log |-> b.log]
    /\ UNCHANGED <<chip, memo, arg, rmw>>

\* SERVO_ON_LOW .. SERVO_OFF_HIGH(servo_id) on the open instance.
ChannelRegister(kind, servo_id) ==
    /\ self.state = "open"
    /\ LET r == CASE kind = "on_low" -> SERVO_ON_LOW(servo_id)
                  [] kind = "on_high" -> SERVO_ON_HIGH(servo_id)
                  [] kind = "off_low" -> SERVO_OFF_LOW(servo_id)
                  [] OTHER -> SERVO_OFF_HIGH(servo_id)
       IN last' = [op |-> kind, args |-> <<servo_id>>, result |-> r.result,
                   ret |-> r.ret, log |-> <<>>]
    /\ UNCHANGED <<regs, chip, self, memo, arg, rmw>>

RegisterKinds == {"on_low", "on_high", "off_low", "off_high"}

InitRegs(m) == [a \in RegisterAddresses |-> IF a = REGISTERS.mode1 THEN m ELSE 0]

(***************************************************************************)
(* The lifecycle specification: instances are opened, positioned and       *)
(* finalized, one at a time, on a chip that keeps its registers; the       *)
(* transport may fail any transaction.                                     *)
(***************************************************************************)
Init ==
    /\ chip \in ChipKinds
    /\ \E m \in Mode1Init : regs = InitRegs(m)
    /\ self = NoInstance
    /\ last = NoCall
    /\ memo = NoMemo
    /\ arg = <<>>
    /\ rmw = NoCallers

Next ==
    \/ \E ctrlOk \in BOOLEAN, address \in Addresses, fail \in FailPlans(11) :
          Open(ctrlOk, address, fail)
    \/ \E servo_id \in Channels, position \in Positions, fail \in FailPlans(1) :
          SetPosition(servo_id, position, fail)
    \/ \E fail \in FailPlans(2) : Del(fail)

Spec == Init /\ [][Next]_vars

(***************************************************************************)
(* The single-call specification: on an instance just opened on a chip in  *)
(* its power-on state, one argument pair, drawn from the whole range of    *)
(* channels and positions, is given to set_position and to the lookups.    *)
(***************************************************************************)
ChanRange == (0 - ChanSlack)..(15 + ChanSlack)

PosRange == (0 - PosSlack)..(3000 + PosSlack)

CallArgs == (ChanRange \X {0, 1500, 3000}) \cup ({0, 15} \X PosRange)

InitCall ==
    /\ chip \in ChipKinds
    /\ arg \in CallArgs
    /\ \E address \in Addresses :
          LET b == __init__(Bus0(chip, InitRegs(17), address, 0))
          IN /\ regs = b.regs
             /\ self = [state |-> "open", ADDRESS |-> address, master |-> "open"]
             /\ last = [op |-> "open", args |-> <<address>>, result |-> "ok",
                        ret |-> 0, log |-> b.log]
    /\ memo = NoMemo
    /\ rmw = NoCallers

NextCall ==
    \/ SetPosition(arg[1], arg[2], 0)
    \/ \E kind \in RegisterKinds : ChannelRegister(kind, arg[1])

SpecCall == InitCall /\ [][NextCall]_vars

(***************************************************************************)
(* The helper specification: the module-level functions testBit, _setBit,  *)
(* _clearBit (on every byte and bit offset) and getByte (on small values   *)
(* and on values with every combination of extreme bytes, below 2^31, the  *)
(* largest integers the checker represents) are each applied once to the   *)
(* arguments drawn.                                                        *)
(***************************************************************************)
BitArgs == {<<"bits", v, o>> : v \in 0..255, o \in 0..7}

ByteDigits == {0, 1, 128, 255}

BigValues ==
    {d0 + 256 * d1 + 65536 * d2 + 16777216 * d3 :
        d0 \in ByteDigits, d1 \in ByteDigits, d2 \in ByteDigits, d3 \in {0, 1, 64, 127}}

ByteArgs == {<<"byte", v, n>> : v \in (0..MaxSmallValue) \cup BigValues, n \in 0..3}

Helper(op, value) ==
    /\ last' = [op |-> op, args |-> <<arg[2], arg[3]>>, result |-> "ok",
                ret |-> value, log |-> <<>>]
    /\ UNCHANGED <<regs, chip, self, memo, arg, rmw>>

TestBit == arg[1] = "bits" /\ Helper("testBit", testBit(arg[2], arg[3]))

SetBit == arg[1] = "bits" /\ Helper("_setBit", _setBit(arg[2], arg[3]))

ClearBit == arg[1] = "bits" /\ Helper("_clearBit", _clearBit(arg[2], arg[3]))

GetByte == arg[1] = "byte" /\ Helper("getByte", getByte(arg[2], arg[3]))

InitPure ==
    /\ chip = "store"
    /\ regs = InitRegs(17)
    /\ self = NoInstance
    /\ last = NoCall
    /\ memo = NoMemo
    /\ arg \in BitArgs \cup ByteArgs
    /\ rmw = NoCallers

NextPure == TestBit \/ SetBit \/ ClearBit \/ GetByte

SpecPure == InitPure /\ [][NextPure]_vars

(***************************************************************************)
(* The two-caller specification: on an open instance two callers each run  *)
(* self._setBit or self._clearBit (lines 209-215) on the same register, on *)
(* different bits.  A call is two steps, the transaction of _getRegister   *)
(* and the transaction of _setRegister; the callers' steps interleave      *)
(* freely, or, when the callers serialize their calls, a caller starts     *)
(* only when the other is not between its two steps.                       *)
(***************************************************************************)
Caller(op, bit) == [op |-> op, bit |-> bit, pc |-> "start", b |-> 0]

RaceInputs ==
    {[serialized |-> z, register |-> r, callers |-> <<Caller(op1, bit1), Caller(op2, bit2)>>] :
        z \in BOOLEAN, r \in {REGISTERS.mode1, REGISTERS.mode2},
        op1 \in {"set", "clear"}, op2 \in {"set", "clear"},
        bit1 \in 0..7, bit2 \in 0..7} 

\* Line 210 / 214: b = self._getRegister(register), by caller t.
RmwRead(t) ==
    /\ rmw # NoCallers
    /\ self.state = "open"
    /\ rmw.callers[t].pc = "start"
    /\ rmw.serialized => rmw.callers[3 - t].pc # "read"
    /\ LET b1 == self_getRegister(Bus0(chip, regs, self.ADDRESS, 0), rmw.register)
       IN /\ regs' = b1.regs
          /\ rmw' = [rmw EXCEPT !.callers[t].pc = "read", !.callers[t].b = b1.ret]
          /\ last' = [op |-> "_getRegister", args |-> <<t, rmw.register>>,
                      result |-> "ok", ret |-> b1.ret, log |-> b1.log]
    /\ UNCHANGED <<chip, self, memo, arg>>

\* Line 211 / 215: self._setRegister(register, _setBit(b, bit)), or the
\* same with _clearBit, by caller t.
RmwWrite(t) ==
    /\ rmw # NoCallers
    /\ self.state = "open"
    /\ rmw.callers[t].pc = "read"
    /\ LET c == rmw.callers[t]
           value == IF c.op = "set" THEN _setBit(c.b, c.bit) ELSE _clearBit(c.b, c.bit)
           b2 == self_setRegister(Bus0(chip, regs, self.ADDRESS, 0), rmw.register, value)
       IN /\ regs' = b2.regs
          /\ rmw' = [rmw EXCEPT !.callers[t].pc = "done"]
          /\ last' = [op |-> "_setRegister", args |-> <<t, rmw.register>>,
                      result |-> "ok", ret |-> 0, log |-> b2.log]
    /\ UNCHANGED <<chip, self, memo, arg>>

InitRace ==
    /\ chip = "store"
    /\ arg = <<>>
    /\ \E m \in Mode1Init, address \in Addresses :
          LET b == __init__(Bus0(chip, InitRegs(m), address, 0))
          IN /\ regs = b.regs
             /\ self = [state |-> "open", ADDRESS |-> address, master |-> "open"]
             /\ last = [op |-> "open", args |-> <<address>>, result |-> "ok",
                        ret |-> 0, log |-> b.log]
    /\ memo = NoMemo
    /\ rmw \in {i \in RaceInputs : i.callers[1].bit # i.callers[2].bit}

NextRace == \E t \in {1, 2} : RmwRead(t) \/ RmwWrite(t)

SpecRace == InitRace /\ [][NextRace]_vars

(***************************************************************************)
(* The mode1 specification: a single caller opens, positions and finalizes *)
(* instances, one after the other, on a chip that is a plain byte store    *)
(* and whose mode1 register starts at any byte; the transport does not     *)
(* fail.  arg keeps the starting mode1 byte.                               *)
(***************************************************************************)
Mode1All == 0..255

ModeChannels == {-1, 0}

ModePositions == {0, 1500}

InitMode ==
    /\ chip = "store"
    /\ \E m \in Mode1All : regs = InitRegs(m) /\ arg = <<m>>
    /\ self = NoInstance
    /\ last = NoCall
    /\ memo = NoMemo
    /\ rmw = NoCallers

NextMode ==
    \/ \E address \in Addresses : Open(TRUE, address, 0)
    \/ \E servo_id \in ModeChannels, position \in ModePositions :
          SetPosition(servo_id, position, 0)
    \/ Del(0)

SpecMode == InitMode /\ [][NextMode]_vars

(***************************************************************************)
(* Vocabulary of the properties: what a bus event is, said without the     *)
(* driver's own helpers.                                                   *)
(***************************************************************************)
\* v with bit o forced to bitval.
WithBit(v, o, bitval) == v - ((v \div (2 ^ o)) % 2) * (2 ^ o) + bitval * (2 ^ o)

\* e is a completed transaction of one write message: register, one byte.
IsWrite(e, addr, reg, val) ==
    /\ e.kind = "tx" /\ e.ok
    /\ e.msgs = <<[rw |-> "w", addr |-> addr, bytes |-> <<reg, val>>, len |-> 2]>>

\* e is a completed read of one register: the register address is written,
\* one byte is read back.
IsRead(e, addr, reg) ==
    /\ e.kind = "tx" /\ e.ok
    /\ e.msgs = <<[rw |-> "w", addr |-> addr, bytes |-> <<reg>>, len |-> 1],
                  [rw |-> "r", addr |-> addr, bytes |-> <<>>, len |-> 1]>>
    /\ Len(e.data) = 1

IsDelay(e, ms) == e.kind = "delay" /\ e.ms = ms

\* A read of reg followed by the write of the value read with bit o forced
\* to bitval, at events i and i + 1 of log.
IsReadModifyWrite(log, i, addr, reg, o, bitval) ==
    /\ IsRead(log[i], addr, reg)
    /\ IsWrite(log[i + 1], addr, reg, WithBit(log[i].data[1], o, bitval))

\* The last call was set_position and passed validation and the transport.
PositionedOK == last.op = "set_position" /\ last.result = "ok"

\* The 16-bit value the last set_position sent: second byte of its first
\* message plus 256 times second byte of its second message.
WrittenTick == last.log[1].msgs[1].bytes[2] + 256 * last.log[1].msgs[2].bytes[2]

\* The linear map of the position, times 1000:
\* 1000 * (305 + (position - 1000) / 1000 * (509 - 305)).
Linear1000(position) == 305 * 1000 + (position - 1000) * (509 - 305)

(***************************************************************************)
(* C1: set_position rejects a channel outside [0,15] with InvalidChannel   *)
(* and, for a valid channel, a position <= 0 or >= 3000 with               *)
(* InvalidPosition; a rejected call issues no bus transaction and leaves   *)
(* every register as it was; a call with channel in [0,15] and             *)
(* 0 < position < 3000 is accepted.                                        *)
(***************************************************************************)
C1_Step ==
    last'.op = "set_position" =>
        LET c == last'.args[1]
            p == last'.args[2]
            rejected == last'.result \in {InvalidChannel, InvalidPosition}
        IN /\ (c < 0 \/ c > 15) => last'.result = InvalidChannel
           /\ (c >= 0 /\ c <= 15 /\ (p <= 0 \/ p >= 3000)) => last'.result = InvalidPosition
           /\ (c >= 0 /\ c <= 15 /\ p > 0 /\ p < 3000) => ~rejected
           /\ rejected => last'.log = <<>> /\ regs' = regs

C2_OpenSequence ==
    (last.op = "open" /\ last.result = "ok") =>
        LET log == last.log
            a == last.args[1]
        IN /\ Len(log) = 13
           /\ IsWrite(log[1], a, 254, 121)
           /\ IsReadModifyWrite(log, 2, a, 0, 0, 0)
           /\ IsWrite(log[4], a, 250, 100)
           /\ IsWrite(log[5], a, 251, 0)
           /\ IsWrite(log[6], a, 252, 151)
           /\ IsWrite(log[7], a, 253, 1)
           /\ IsReadModifyWrite(log, 8, a, 0, 4, 0)
           /\ IsDelay(log[10], 100)
           /\ IsReadModifyWrite(log, 11, a, 0, 7, 1)
           /\ IsDelay(log[13], 100)
           /\ Cardinality({i \in 1..Len(log) : log[i].kind = "delay"}) = 2

C2_Witness ==
    /\ last.op = "open" /\ last.result = "ok" /\ Len(last.log) = 13
    /\ self.state = "open"
    /\ regs[254] = 121 /\ regs[252] = 151 /\ regs[253] = 1

(***************************************************************************)
(* C3 as stated: the tick set_position writes is the linear map rounded to *)
(* the nearest integer, 1000 * tick within 500 of the map times 1000.      *)
(***************************************************************************)
C3_Original ==
    PositionedOK =>
        LET d == 1000 * WrittenTick - Linear1000(last.args[2])
        IN d >= 0 - 500 /\ d <= 500

(***************************************************************************)
(* C3 as amended: for every position with 0 < position < 3000 the tick     *)
(* set_position writes is the linear map truncated to an integer (rounded  *)
(* down): tick <= 305 + (position - 1000) / 1000 * 204 < tick + 1.         *)
(***************************************************************************)
C3_TickTruncated ==
    PositionedOK =>
        /\ 1000 * WrittenTick <= Linear1000(last.args[2])
        /\ Linear1000(last.args[2]) < 1000 * (WrittenTick + 1)

\* Position 1003 maps to 305.612 and is written as 305.
C3_Witness == PositionedOK /\ last.args[2] = 1003 /\ WrittenTick = 305

(***************************************************************************)
(* C4: the position-to-tick mapping hits the anchors (1000 -> 305,         *)
(* 1500 -> 407, 2000 -> 509), is non-decreasing in position over 1..2999   *)
(* (the tick written for a position lies between the values of its two     *)
(* neighbours), and is not clamped: a position below 1000 gives a tick     *)
(* below 305, a position above 2000 whose linear value reaches 510 gives a *)
(* tick above 509, and position 2999 gives a tick above 509.               *)
(***************************************************************************)
C4_Mapping ==
    PositionedOK =>
        LET p == last.args[2]
            t == WrittenTick
        IN /\ (p = 1000 => t = 305) /\ (p = 1500 => t = 407) /\ (p = 2000 => t = 509)
           /\ (p > 1 => PositionValue(p - 1) <= t)
           /\ (p < 2999 => t <= PositionValue(p + 1))
           /\ (p < 1000 => t < 305)
           /\ (p > 2000 /\ Linear1000(p) >= 510 * 1000 => t > 509)
           /\ (p = 2999 => t > 509)

C4_Witness == PositionedOK /\ last.args[2] = 2999 /\ WrittenTick = 712

(***************************************************************************)
(* C5 as stated: an accepted set_position issues exactly two write         *)
(* transactions and no reads, the low byte to 0x08 + 4 * channel and then, *)
(* in a separate transaction, the high byte to 0x09 + 4 * channel.         *)
(***************************************************************************)
C5_Original ==
    PositionedOK =>
        LET c == last.args[1]
            t == Linear1000(last.args[2]) \div 1000
        IN /\ Len(last.log) = 2
           /\ IsWrite(last.log[1], self.ADDRESS, 8 + 4 * c, t % 256)
           /\ IsWrite(last.log[2], self.ADDRESS, 9 + 4 * c, t \div 256)

(***************************************************************************)
(* C5 as amended: an accepted set_position issues exactly one bus          *)
(* transaction and no reads; the transaction holds two write messages,     *)
(* first the tick's low byte (tick mod 256) to register 0x08 + 4 * channel *)
(* and then the tick's high byte (tick div 256) to register                *)
(* 0x09 + 4 * channel, each message a register address and one data byte.  *)
(***************************************************************************)
C5_OneTransactionTwoWrites ==
    PositionedOK =>
        LET c == last.args[1]
            t == Linear1000(last.args[2]) \div 1000
        IN /\ Len(last.log) = 1
           /\ last.log[1].kind = "tx" /\ last.log[1].ok /\ last.log[1].data = <<>>
           /\ last.log[1].msgs =
                <<[rw |-> "w", addr |-> self.ADDRESS, bytes |-> <<8 + 4 * c, t % 256>>, len |-> 2],
                  [rw |-> "w", addr |-> self.ADDRESS, bytes |-> <<9 + 4 * c, t \div 256>>, len |-> 2]>>

C5_Witness ==
    /\ PositionedOK /\ last.args = <<15, 2999>>
    /\ Len(last.log) = 1 /\ Len(last.log[1].msgs) = 2
    /\ last.log[1].msgs[1].bytes = <<68, 200>> /\ last.log[1].msgs[2].bytes = <<69, 2>>

(***************************************************************************)
(* C6: a set_position call changes no register other than off_low and      *)
(* off_high of the channel it addresses: the on registers of every         *)
(* channel, the off registers of the other channels, mode1, mode2,         *)
(* pre_scale and the all_* registers keep their values.                    *)
(***************************************************************************)
C6_Step ==
    last'.op = "set_position" =>
        LET c == last'.args[1]
        IN \A a \in RegisterAddresses :
              regs'[a] # regs[a] => (c >= 0 /\ c <= 15 /\ a \in {8 + 4 * c, 9 + 4 * c})

C6_OnlyOffRegisters == [][C6_Step]_vars

\* Channel 15 was moved on a chip whose open loaded every channel: its off
\* registers changed, its on registers and channel 0 hold what open loaded.
C6_Witness ==
    /\ PositionedOK /\ last.args = <<15, 2999>> /\ chip = "broadcast"
    /\ regs[68] = 200 /\ regs[69] = 2 /\ regs[66] = 100 /\ regs[67] = 0
    /\ regs[8] = 151 /\ regs[9] = 1 /\ regs[254] = 121

(***************************************************************************)
(* C7: a close that the transport serves reads mode1 once, writes mode1    *)
(* once with the value read and bit 4 (sleep) set, the other seven bits    *)
(* kept, and only then releases the transport handle; it issues nothing    *)
(* else and changes no other register.                                     *)
(***************************************************************************)
C7_Step ==
    (last'.op = "del" /\ last'.result = "ok") =>
        /\ Len(last'.log) = 3
        /\ IsReadModifyWrite(last'.log, 1, self.ADDRESS, 0, 4, 1)
        /\ last'.log[1].data[1] = regs[0]
        /\ last'.log[3].kind = "close"
        /\ self.master = "open" /\ self'.master = "closed"
        /\ regs'[0] = WithBit(regs[0], 4, 1)
        /\ \A a \in RegisterAddresses : a # 0 => regs'[a] = regs[a]

C7_CloseSetsSleep == [][C7_Step]_vars

\* mode1 was 0xEE after open (sleep clear) and is 0xFE after close.
C7_Witness ==
    /\ last.op = "del" /\ last.result = "ok" /\ self.master = "closed"
    /\ last.log[1].data = <<238>> /\ regs[0] = 254

(***************************************************************************)
(* The bring-up as a schedule: the shape of each of its thirteen events.   *)
(***************************************************************************)
OpenSchedule ==
    <<<<"w", 254>>, <<"r", 0>>, <<"w", 0>>, <<"w", 250>>, <<"w", 251>>, <<"w", 252>>,
      <<"w", 253>>, <<"r", 0>>, <<"w", 0>>, <<"d", 100>>, <<"r", 0>>, <<"w", 0>>,
      <<"d", 100>>>>

EventShape(e) ==
    IF e.kind = "delay" THEN <<"d", e.ms>>
    ELSE IF e.kind = "close" THEN <<"c", 0>>
    ELSE IF Len(e.msgs) = 1 THEN <<"w", e.msgs[1].bytes[1]>>
    ELSE <<e.msgs[2].rw, e.msgs[1].bytes[1]>>

\* The log of an open the transport failed: a prefix of the bring-up whose
\* last event is the one failed transaction, every event before it served.
FailedOpenLog(log) ==
    /\ Len(log) >= 1 /\ Len(log) <= Len(OpenSchedule)
    /\ \A i \in 1..Len(log) : EventShape(log[i]) = OpenSchedule[i]
    /\ \A i \in 1..Len(log) : log[i].ok = (i < Len(log))
    /\ log[Len(log)].kind = "tx"

\* The log of a finalizer: nothing, or the read of mode1 and, when it was
\* served, the write of mode1 with sleep set and, when that was served, the
\* release of the master.
TeardownLog(log, addr) ==
    \/ log = <<>>
    \/ /\ Len(log) = 1 /\ ~log[1].ok /\ EventShape(log[1]) = <<"r", 0>>
    \/ /\ Len(log) \in {2, 3}
       /\ IsRead(log[1], addr, 0)
       /\ EventShape(log[2]) = <<"w", 0>>
       /\ log[2].msgs[1].bytes[2] = WithBit(log[1].data[1], 4, 1)
       /\ log[2].ok = (Len(log) = 3)
       /\ Len(log) = 3 => log[3].kind = "close"

(***************************************************************************)
(* C8 as stated: when the transport fails a transaction of open, open      *)
(* stops there (the error is surfaced, no usable driver results, the       *)
(* failed transaction is not retried, no later bring-up step is issued)    *)
(* and the driver issues no further bus transaction afterwards, teardown   *)
(* traffic included.                                                       *)
(***************************************************************************)
C8_OriginalStep ==
    /\ (last'.op = "open" /\ last'.result = "TransportError") =>
          (self'.state = "failed" /\ FailedOpenLog(last'.log))
    /\ self.state = "failed" => last'.log = <<>>

C8_Original == [][C8_OriginalStep]_vars

(***************************************************************************)
(* C8 as amended: when the transport fails a transaction of open, open     *)
(* stops there (the error is surfaced, no usable driver results, the       *)
(* failed transaction is not retried, no later bring-up step is issued);   *)
(* the only call that follows on that instance is its finalizer, whose     *)
(* teardown traffic is at most a read of mode1, a write of mode1 with the  *)
(* sleep bit set and the release of the transport handle.                  *)
(***************************************************************************)
C8_AmendedStep ==
    /\ (last'.op = "open" /\ last'.result = "TransportError") =>
          (self'.state = "failed" /\ FailedOpenLog(last'.log))
    /\ self.state = "failed" =>
          (last'.op = "del" /\ self'.state = "dead" /\ TeardownLog(last'.log, self.ADDRESS))

C8_FailedOpenStops == [][C8_AmendedStep]_vars

\* The finalizer of an instance whose open failed has put the chip to sleep.
C8_Witness ==
    /\ last.op = "del" /\ last.result = "ok" /\ Len(last.log) = 3
    /\ self.state = "dead" /\ regs[REGISTERS.all_off_high] = 0 /\ regs[REGISTERS.pre_scale] = 121

(***************************************************************************)
(* C9: for a channel c in [0,15] the lookups give on_low = 0x06 + 4c,      *)
(* on_high = 0x07 + 4c, off_low = 0x08 + 4c, off_high = 0x09 + 4c, each 4  *)
(* more than for channel c - 1; for c outside [0,15] each lookup fails     *)
(* with InvalidChannel; no lookup issues a bus transaction.                *)
(***************************************************************************)
KindBase == [on_low |-> 6, on_high |-> 7, off_low |-> 8, off_high |-> 9]

Lookup(kind, c) ==
    CASE kind = "on_low" -> SERVO_ON_LOW(c)
      [] kind = "on_high" -> SERVO_ON_HIGH(c)
      [] kind = "off_low" -> SERVO_OFF_LOW(c)
      [] OTHER -> SERVO_OFF_HIGH(c)

C9_ChannelRegisters ==
    last.op \in RegisterKinds =>
        LET c == last.args[1]
        IN /\ last.log = <<>>
           /\ (c >= 0 /\ c <= 15) =>
                 (last.result = "ok" /\ last.ret = KindBase[last.op] + 4 * c)
           /\ (c >= 1 /\ c <= 15) => last.ret = Lookup(last.op, c - 1).ret + 4
           /\ (c < 0 \/ c > 15) => last.result = InvalidChannel

C9_Witness == last.op = "off_high" /\ last.args = <<15>> /\ last.result = "ok" /\ last.ret = 69

(***************************************************************************)
(* C10: set_position is deterministic and idempotent: a call with the      *)
(* arguments of the instance's first successful call, whatever was called  *)
(* in between and whatever the registers hold, issues the same log         *)
(* (addresses, bytes, order), and a call that repeats the call before it   *)
(* leaves every register as that call left it.                             *)
(***************************************************************************)
C10_Step ==
    (last'.op = "set_position" /\ last'.result = "ok") =>
        /\ memo'.args = last'.args => last'.log = memo'.log
        /\ (PositionedOK /\ last.args = last'.args) => regs' = regs

C10_DeterministicIdempotent == [][C10_Step]_vars

\* On a chip whose open loaded every channel, channel 0 is set to 1500 again
\* after channel 15 was moved: the first call's arguments, repeated.
C10_Witness ==
    /\ PositionedOK /\ last.args = <<0, 1500>> /\ memo.args = <<0, 1500>>
    /\ last.log = memo.log /\ chip = "broadcast" /\ regs[68] = 200

(***************************************************************************)
(* C11: for every byte v and offset o in [0,7]: testBit of _setBit(v, o)   *)
(* at o is true, testBit of _clearBit(v, o) at o is false, testBit(v, o)   *)
(* is true exactly when bit o of v is 1, and _setBit(v, o) and             *)
(* _clearBit(v, o) keep every bit other than o and stay within [0,255].    *)
(* (testBit returns the masked integer: true is non-zero.)                 *)
(***************************************************************************)
Bit(v, k) == (v \div (2 ^ k)) % 2

C11_BitHelpers ==
    LET v == last.args[1]
        o == last.args[2]
        othersKept == \A k \in 0..7 : k # o => Bit(last.ret, k) = Bit(v, k)
    IN /\ last.op = "testBit" => ((last.ret # 0) <=> (Bit(v, o) = 1))
       /\ last.op = "_setBit" =>
             (testBit(last.ret, o) # 0 /\ othersKept /\ last.ret \in 0..255)
       /\ last.op = "_clearBit" =>
             (testBit(last.ret, o) = 0 /\ othersKept /\ last.ret \in 0..255)

\* Bit 4 of 0xEE is set: 0xFE.
C11_Witness == last.op = "_setBit" /\ last.args = <<238, 4>> /\ last.ret = 254

(***************************************************************************)
(* C12: for every value v drawn, 0 <= v < 2^31, and n in {0,1,2,3},        *)
(* getByte(v, n) is (v div 256^n) mod 256, lies in [0,255], and the four   *)
(* bytes put back together (sum of getByte(v, k) * 256^k) give v mod 2^32, *)
(* which is v itself below 2^31.                                           *)
(***************************************************************************)
C12_GetByte ==
    last.op = "getByte" =>
        LET v == last.args[1]
            n == last.args[2]
            byte(k) == IF k = n THEN last.ret ELSE getByte(v, k)
        IN /\ last.ret = (v \div (256 ^ n)) % 256
           /\ last.ret \in 0..255
           /\ byte(0) + 256 * byte(1) + 65536 * byte(2) + 16777216 * byte(3)
                 = v

\* Byte 3 of 0x7FFF0180 is 0x7F.
C12_Witness == last.op = "getByte" /\ last.args = <<2147418496, 3>> /\ last.ret = 127

(***************************************************************************)
(* C13: a read-modify-write bit operation is two separate bus              *)
(* transactions, a read and then a write.  When two callers run them on    *)
(* the same register and serialize their calls, both callers' bit changes  *)
(* are in the register once both are done; without serialization there is *)
(* an interleaving that loses one caller's change (C13_Witness).           *)
(***************************************************************************)
BothDone == rmw # NoCallers /\ \A t \in {1, 2} : rmw.callers[t].pc = "done"

\* Caller t's change is in the register.
ChangePresent(t) ==
    Bit(regs[rmw.register], rmw.callers[t].bit)
        = (IF rmw.callers[t].op = "set" THEN 1 ELSE 0)

C13_SerializedKeepsBoth ==
    /\ last.op = "_getRegister" =>
          (Len(last.log) = 1 /\ IsRead(last.log[1], self.ADDRESS, last.args[2]))
    /\ last.op = "_setRegister" =>
          (Len(last.log) = 1 /\ last.log[1].kind = "tx" /\ last.log[1].ok
             /\ Len(last.log[1].msgs) = 1 /\ last.log[1].msgs[1].rw = "w"
             /\ last.log[1].msgs[1].bytes[1] = last.args[2])
    /\ (BothDone /\ rmw.serialized) => (ChangePresent(1) /\ ChangePresent(2))

\* Unserialized, both callers are done and caller 1's change is lost.
C13_Witness == BothDone /\ ~rmw.serialized /\ ~ChangePresent(1) /\ ChangePresent(2)

(***************************************************************************)
(* C14: the tick open writes to all_off_low / all_off_high is the midpoint *)
(* of 305 and 509 (407, bytes 151 and 1); set_position(c, 1500) writes the *)
(* same two bytes to the channel's off registers, so right after open, on  *)
(* a chip whose broadcast registers load every channel, it leaves every    *)
(* register unchanged.                                                     *)
(***************************************************************************)
C14_Step ==
    (/\ last.op = "open" /\ last.result = "ok"
     /\ last'.op = "set_position" /\ last'.result = "ok" /\ last'.args[2] = 1500)
    => LET lo == last.log[6].msgs[1].bytes[2]
           hi == last.log[7].msgs[1].bytes[2]
       IN /\ IsWrite(last.log[6], self.ADDRESS, 252, 151)
          /\ IsWrite(last.log[7], self.ADDRESS, 253, 1)
          /\ 2 * (lo + 256 * hi) = 305 + 509
          /\ last'.log[1].msgs[1].bytes[2] = lo
          /\ last'.log[1].msgs[2].bytes[2] = hi
          /\ chip = "broadcast" => regs' = regs

C14_CentreIsDefault == [][C14_Step]_vars

\* On a broadcast chip, set_position(15, 1500) came right after open and
\* every channel still holds the centre tick.
C14_Witness ==
    /\ chip = "broadcast"
    /\ PositionedOK /\ last.args = <<15, 1500>> /\ memo # NoMemo /\ memo.args = last.args
    /\ \A c \in 0..15 : regs[8 + 4 * c] = 151 /\ regs[9 + 4 * c] = 1

(***************************************************************************)
(* C15: for every accepted position the tick set_position writes lies in   *)
(* 101..712: it fits in 12 bits (the byte sent to off_high is at most 15)  *)
(* and is greater than the on-tick 100 that open wrote, so on an open      *)
(* instance every channel's off-tick is greater than its on-tick.  A       *)
(* channel's ticks are read from its four registers; on a chip that does   *)
(* not load the broadcast registers into the channels, the channels that   *)
(* were never positioned hold what they held before open and are left out. *)
(***************************************************************************)
OnTick(c) == regs[6 + 4 * c] + 256 * regs[7 + 4 * c]

OffTick(c) == regs[8 + 4 * c] + 256 * regs[9 + 4 * c]

C15_TickRange ==
    /\ PositionedOK =>
          /\ last.args[2] > 0 /\ last.args[2] < 3000
          /\ WrittenTick \in 101..712
          /\ last.log[1].msgs[2].bytes[2] <= 15
          /\ WrittenTick > regs[250] + 256 * regs[251]
          /\ OffTick(last.args[1]) = WrittenTick
          /\ OffTick(last.args[1]) > OnTick(last.args[1])
    /\ (self.state = "open" /\ chip = "broadcast") =>
          \A c \in 0..15 : OnTick(c) = 100 /\ OffTick(c) \in 101..712

\* The lowest accepted position gave the lowest tick, one above the on-tick.
C15_Witness ==
    /\ chip = "broadcast"
    /\ PositionedOK /\ last.args = <<15, 1>>
    /\ OnTick(15) = 100 /\ OffTick(15) = 101

(***************************************************************************)
(* C16: on a plain byte store, with a single caller, for every initial     *)
(* mode1 value m: while an instance is open mode1 is m with bit 0 and bit  *)
(* 4 cleared and bit 7 set, bits 1, 2, 3, 5 and 6 as in m, through every   *)
(* set_position call, accepted or rejected; after close it differs from    *)
(* that value only in bit 4, which is 1.                                   *)
(***************************************************************************)
Opened(m) == WithBit(WithBit(WithBit(m, 0, 0), 4, 0), 7, 1)

C16_Mode1Lifecycle ==
    LET m == arg[1]
    IN /\ \A k \in {1, 2, 3, 5, 6} : Bit(regs[0], k) = Bit(m, k)
       /\ self.state = "none" => regs[0] = m
       /\ self.state = "open" =>
             /\ regs[0] = Opened(m)
             /\ Bit(regs[0], 0) = 0 /\ Bit(regs[0], 4) = 0 /\ Bit(regs[0], 7) = 1
       /\ self.state = "dead" =>
             /\ regs[0] = WithBit(Opened(m), 4, 1)
             /\ Bit(regs[0], 4) = 1
             /\ \A k \in 0..7 : k # 4 => Bit(regs[0], k) = Bit(Opened(m), k)

\* From mode1 = 127 an instance was opened, positioned and closed.
C16_Witness ==
    /\ arg = <<127>> /\ self.state = "dead" /\ last.op = "del" /\ last.result = "ok"
    /\ memo # NoMemo
    /\ regs[0] = 254

(***************************************************************************)
(* C17: starting from a chip whose sleep bit (mode1 bit 4) is 1, over any  *)
(* sequence of open / set_position / close by a single caller, pre_scale   *)
(* (register 254) is written only while the sleep bit is 1: open writes    *)
(* pre_scale before the write that clears sleep, and set_position and      *)
(* close never write pre_scale.                                            *)
(***************************************************************************)
\* Event e is a completed transaction with a message that writes a value
\* to register reg.
WritesRegister(e, reg) ==
    /\ e.kind = "tx" /\ e.ok
    /\ \E j \in 1..Len(e.msgs) :
          e.msgs[j].rw = "w" /\ Len(e.msgs[j].bytes) >= 2 /\ e.msgs[j].bytes[1] = reg

\* The value event e writes to register reg.
ValueWritten(e, reg) ==
    LET j == CHOOSE j \in 1..Len(e.msgs) :
                 e.msgs[j].rw = "w" /\ Len(e.msgs[j].bytes) >= 2 /\ e.msgs[j].bytes[1] = reg
    IN e.msgs[j].bytes[2]

\* The sleep bit of the chip just before event i of log, mode1 having been
\* mode1Before when the log began.
SleepBefore(log, i, mode1Before) ==
    LET W == {j \in 1..(i - 1) : WritesRegister(log[j], 0)}
    IN IF W = {} THEN Bit(mode1Before, 4)
       ELSE Bit(ValueWritten(log[CHOOSE j \in W : \A k \in W : k <= j], 0), 4)

\* Event i of log is the write that clears the sleep bit.
ClearsSleep(log, i, mode1Before) ==
    /\ WritesRegister(log[i], 0)
    /\ SleepBefore(log, i, mode1Before) = 1
    /\ Bit(ValueWritten(log[i], 0), 4) = 0

C17_Step ==
    Bit(arg[1], 4) = 1 =>
        LET log == last'.log
            N == 1..Len(log)
        IN /\ \A i \in N : WritesRegister(log[i], 254) => SleepBefore(log, i, regs[0]) = 1
           /\ last'.op = "open" =>
                 /\ \E i \in N : WritesRegister(log[i], 254)
                 /\ \E j \in N : ClearsSleep(log, j, regs[0])
                 /\ \A i, j \in N :
                       (WritesRegister(log[i], 254) /\ ClearsSleep(log, j, regs[0])) => i < j
           /\ last'.op \in {"set_position", "del"} =>
                 \A i \in N : ~WritesRegister(log[i], 254)
           /\ last'.op = "del" => Bit(regs'[0], 4) = 1

====
